---- MODULE Spec2Model ----
(***************************************************************************)
(* Cloudflare Logpush HTTP receiver (src/log-receiver/app.py).             *)
(*                                                                         *)
(* Each gunicorn worker handles one request at a time through              *)
(* receive_logs(): AuthCheck, Decode, ProbeCheck, Parse, DeriveLabels,     *)
(* Forward, Respond.  Byte strings and text are sequences of tokens; a     *)
(* token stands for a fixed piece of text (a JSON value, a newline, a run  *)
(* of blanks) or for a byte that is not text (the gzip magic, the gzip     *)
(* trailer, a byte that is invalid UTF-8).  Python strings that are        *)
(* compared character by character (the auth token) are sequences of       *)
(* one-character strings.                                                  *)
(***************************************************************************)
EXTENDS Integers, Sequences, FiniteSets, TLC

VARIABLES AUTH_TOKEN, pc, req, content, logs, labels, answer, posts, resp, exc, steps

vars == <<AUTH_TOKEN, pc, req, content, logs, labels, answer, posts, resp, exc, steps>>

(***************************************************************************)
(* Bounds of the model.                                                    *)
(***************************************************************************)
\* lines per request body in the single-worker specification
MaxLines == 3
\* lines per request body in the two-worker specifications
ConcMaxLines == 2

\* options['workers'] of the gunicorn application
NumWorkers == 2

Workers == 1..NumWorkers

(***************************************************************************)
(* Character strings.                                                      *)
(***************************************************************************)
\* os.getenv('AUTH_TOKEN', 'changeme'): the default placeholder
Changeme == <<"c", "h", "a", "n", "g", "e", "m", "e">>

\* a token an operator configured
Secret == <<"s", "k">>

\* f"Bearer {AUTH_TOKEN}"
Bearer(token) == <<"B", "e", "a", "r", "e", "r", " ">> \o token

\* Python's `a in b` on strings
IsSubstring(a, b) ==
    \E i \in 0..(Len(b) - Len(a)) : SubSeq(b, i + 1, i + Len(a)) = a

(***************************************************************************)
(* Tokens of bodies and text.                                              *)
(*   NL      "\n"                                                          *)
(*   WS      a run of blanks, tabs or carriage returns                     *)
(*   A       {"ClientRequestHost":"a.example.com",                         *)
(*            "EdgeStartTimestamp":"2024-01-01T00:00:00Z"}                 *)
(*   B       {"ClientRequestHost":"b.example.com"}                         *)
(*   N       {"RayID":"r1","EdgeStartTimestamp":"yesterday"}               *)
(*   NUM     1            STR  "x"          NULL  null                     *)
(*   BAD     {oops        (not JSON)                                       *)
(*   PROBE   {"content":"tests"}                                           *)
(*   NESTED  {"msg":{"content":"tests"}}                                   *)
(*   GZH     the gzip magic 1f 8b and header                               *)
(*   GZT     the gzip end-of-stream marker, CRC and length                 *)
(*   XX      a byte that starts no UTF-8 sequence (ff)                     *)
(***************************************************************************)
SpaceTokens == {"NL", "WS"}
ObjectTokens == {"A", "B", "N", "PROBE", "NESTED"}
ScalarTokens == {"NUM", "STR", "NULL"}
JsonTokens == ObjectTokens \cup ScalarTokens
ProbeTokens == {"PROBE", "NESTED"}
NonTextBytes == {"GZH", "GZT", "XX"}

\* an exception: its class and str(e)
Exception(type, msg) == [type |-> type, msg |-> msg]

\* no exception
None == Exception("None", "")

BadGzipFile == Exception("BadGzipFile", "Not a gzipped file")
EOFError ==
    Exception("EOFError",
              "Compressed file ended before the end-of-stream marker was reached")
UnicodeDecodeError ==
    Exception("UnicodeDecodeError", "'utf-8' codec can't decode byte: invalid start byte")
JSONDecodeError == Exception("JSONDecodeError", "Expecting value")
TypeError == Exception("TypeError", "argument of this type is not iterable")
AttributeError == Exception("AttributeError", "object has no attribute 'get'")
ValueError == Exception("ValueError", "Invalid isoformat string")
Timeout == Exception("Timeout", "Read timed out")
HTTPError == Exception("HTTPError", "Client or Server Error")

\* the classes derived from requests.exceptions.RequestException
RequestException == {"Timeout", "HTTPError", "ConnectionError"}

(***************************************************************************)
(* gzip and UTF-8.                                                         *)
(***************************************************************************)
\* gzip.compress of UTF-8 text: header, deflated data, trailer
Gzip(bytes) == <<"GZH">> \o bytes \o <<"GZT">>

\* mutant: a receiver that takes no body for gzip
gzip_decompress_unsupported(data) == [raised |-> BadGzipFile, out |-> <<>>]

\* gzip.decompress(data): BadGzipFile without the magic, EOFError when the
\* stream ends before its end-of-stream marker
gzip_decompress(data) ==
    IF data = <<>> THEN [raised |-> None, out |-> <<>>]
    ELSE IF Head(data) # "GZH" THEN [raised |-> BadGzipFile, out |-> <<>>]
    ELSE IF Len(data) < 2 \/ data[Len(data)] # "GZT"
         THEN [raised |-> EOFError, out |-> <<>>]
    ELSE [raised |-> None, out |-> SubSeq(data, 2, Len(data) - 1)]

\* bytes.decode('utf-8')
utf8_decode(bytes) ==
    IF \E i \in 1..Len(bytes) : bytes[i] \in NonTextBytes
    THEN [raised |-> UnicodeDecodeError, out |-> <<>>]
    ELSE [raised |-> None, out |-> bytes]

\* the try/except around gzip.decompress: the decompressed text, else the raw
\* bytes as text; an exception of the raw decode leaves the block
DecodeBody(data) ==
    LET gz == gzip_decompress(data)
        inner == utf8_decode(gz.out)
    IN  IF gz.raised = None /\ inner.raised = None
        THEN inner
        ELSE utf8_decode(data)

(***************************************************************************)
(* Text.                                                                   *)
(***************************************************************************)
\* Python evaluates an argument once, before the call: F applied to the
\* value of a
CallByValue(F(_), a) == CHOOSE r \in { F(x) : x \in {a} } : TRUE

\* str.lstrip(): the text from its first token that is not white space
LStrip(s) ==
    IF \A i \in 1..Len(s) : s[i] \in SpaceTokens THEN <<>>
    ELSE SubSeq(s, CHOOSE k \in 1..Len(s) :
                      s[k] \notin SpaceTokens
                      /\ \A j \in 1..(k - 1) : s[j] \in SpaceTokens,
                Len(s))

\* str.rstrip(): the text up to its last token that is not white space
RStrip(s) ==
    IF \A i \in 1..Len(s) : s[i] \in SpaceTokens THEN <<>>
    ELSE SubSeq(s, 1, CHOOSE k \in 1..Len(s) :
                         s[k] \notin SpaceTokens
                         /\ \A j \in (k + 1)..Len(s) : s[j] \in SpaceTokens)

\* str.strip()
strip(s) == CallByValue(RStrip, CallByValue(LStrip, s))

\* str.split('\n'): the pieces between the newlines, one more than newlines
split(s) ==
    LET nl == {i \in 1..Len(s) : s[i] = "NL"}
        \* the position of the j-th newline; 0 before the first piece,
        \* Len(s) + 1 after the last
        cut(j) == IF j = 0 THEN 0
                  ELSE IF j > Cardinality(nl) THEN Len(s) + 1
                  ELSE CHOOSE p \in nl : Cardinality({q \in nl : q < p}) = j - 1
    IN  [j \in 1..(Cardinality(nl) + 1) |-> SubSeq(s, cut(j - 1) + 1, cut(j) - 1)]

\* mutant: the probe recognised by equality with the whole body
is_probe_exact(text) == text = <<"PROBE">>

\* '{"content":"tests"}' in content
is_probe(text) == \E i \in 1..Len(text) : text[i] \in ProbeTokens

(***************************************************************************)
(* JSON values.  An object is a record of its fields; any other value is   *)
(* kept as its literal.                                                    *)
(***************************************************************************)
JsonValue(tok) ==
    CASE tok = "A" -> [jt |-> "object",
                       val |-> [ClientRequestHost |-> "a.example.com",
                                EdgeStartTimestamp |-> "2024-01-01T00:00:00Z"]]
      [] tok = "B" -> [jt |-> "object",
                       val |-> [ClientRequestHost |-> "b.example.com"]]
      [] tok = "N" -> [jt |-> "object",
                       val |-> [RayID |-> "r1", EdgeStartTimestamp |-> "yesterday"]]
      [] tok = "PROBE" -> [jt |-> "object", val |-> [content |-> "tests"]]
      [] tok = "NESTED" -> [jt |-> "object", val |-> [msg |-> "content:tests"]]
      [] tok = "NUM" -> [jt |-> "number", val |-> [lit |-> "1"]]
      [] tok = "STR" -> [jt |-> "string", val |-> [lit |-> "x"]]
      [] OTHER -> [jt |-> "null", val |-> [lit |-> "null"]]

\* json.loads(line): one JSON value, blanks around it allowed; anything else
\* raises JSONDecodeError
json_loads(line) ==
    LET s == strip(line)
    IN  IF Len(s) = 1 /\ s[1] \in JsonTokens
        THEN [raised |-> None, value |-> JsonValue(s[1])]
        ELSE [raised |-> JSONDecodeError, value |-> JsonValue("NULL")]

\* a line the loop keeps: not blank once stripped, and JSON
IsKept(line) == strip(line) # <<>> /\ json_loads(strip(line)).raised = None

\* a line that ends a loop which stops at the first malformed line
IsMalformed(line) == strip(line) # <<>> /\ json_loads(strip(line)).raised # None

\* mutant: the first malformed line ends the loop
ParseLoop_abort(lines) ==
    LET stop == IF \E i \in 1..Len(lines) : IsMalformed(lines[i])
                THEN CHOOSE i \in 1..Len(lines) :
                         IsMalformed(lines[i])
                         /\ \A j \in 1..(i - 1) : ~IsMalformed(lines[j])
                ELSE Len(lines) + 1
        kept == SelectSeq(SubSeq(lines, 1, stop - 1), IsKept)
    IN  [i \in 1..Len(kept) |-> json_loads(strip(kept[i])).value]

\* the loop over content.strip().split('\n'): blank lines and lines that are
\* not JSON are skipped, the others appended in order
ParseLoop(lines) ==
    LET kept == SelectSeq(lines, IsKept)
    IN  [i \in 1..Len(kept) |-> json_loads(strip(kept[i])).value]

ParseNdjson(text) ==
    CallByValue(ParseLoop, CallByValue(split, CallByValue(strip, text)))

(***************************************************************************)
(* AuthCheck.                                                              *)
(***************************************************************************)
\* mutant: the query parameter compared for equality
Unauthorized_exact(token, auth_header, token_arg) ==
    /\ token # Changeme
    /\ auth_header # Bearer(token)
    /\ token_arg # token

\* AUTH_TOKEN != 'changeme' and auth_header != expected_auth
\*   and AUTH_TOKEN not in request.args.get('token', '')
Unauthorized(token, auth_header, token_arg) ==
    /\ token # Changeme
    /\ auth_header # Bearer(token)
    /\ ~IsSubstring(token, token_arg)

(***************************************************************************)
(* DeriveLabels.                                                           *)
(***************************************************************************)
BaseLabels == [job |-> "cloudflare", source |-> "logpush"]

\* `'ClientRequestHost' in sample_log`: a key test on an object, a substring
\* or membership test on a string or an array, TypeError on a number, a
\* boolean or null
DeriveLabelsOf(batch) ==
    LET sample_log == batch[1]
    IN  IF sample_log.jt \in {"number", "null", "boolean"}
        THEN [raised |-> TypeError, labels |-> BaseLabels]
        ELSE IF sample_log.jt = "object"
                /\ "ClientRequestHost" \in DOMAIN sample_log.val
             THEN [raised |-> None,
                   labels |-> [job |-> "cloudflare", source |-> "logpush",
                               host |-> sample_log.val.ClientRequestHost]]
        ELSE [raised |-> None, labels |-> BaseLabels]

(***************************************************************************)
(* Forward: push_to_loki.                                                  *)
(***************************************************************************)
\* str(int(time.time() * 1e9)): the clock's reading when the record is handled
NowNs == "now"

\* datetime.fromisoformat(timestamp.replace('Z', '+00:00')) in nanoseconds
IsoToNs(timestamp) ==
    IF timestamp = "2024-01-01T00:00:00Z"
    THEN [raised |-> None, ns |-> "1704067200000000000"]
    ELSE [raised |-> ValueError, ns |-> ""]

\* the timestamp of one record of the loop (log is an object here)
TsNs(log) ==
    IF "EdgeStartTimestamp" \in DOMAIN log.val
    THEN IF IsoToNs(log.val.EdgeStartTimestamp).raised = None
         THEN IsoToNs(log.val.EdgeStartTimestamp).ns
         ELSE NowNs
    ELSE NowNs

\* json.dumps(log)
json_dumps(log) == [json |-> log]

\* what the backend does with one POST: an HTTP answer or no answer in time
HttpAnswer(code) == [kind |-> "http", code |-> code]
NetworkFailure == [kind |-> "timeout", code |-> 0]
NoAnswer == [kind |-> "none", code |-> 0]
BackendAnswers == {HttpAnswer(200), HttpAnswer(304), HttpAnswer(503), NetworkFailure}

\* requests.post(...) then response.raise_for_status(): HTTPError for a status
\* of 400 to 599, the network's exception when no answer came
PostOutcome(ans) ==
    IF ans.kind # "http" THEN Timeout
    ELSE IF ans.code >= 400 /\ ans.code < 600 THEN HTTPError
    ELSE None

\* mutant: a failed POST is sent once more
push_to_loki_retry(batch, stream_labels, ans) ==
    IF batch = <<>>
    THEN [raised |-> None, ret |-> TRUE, sent |-> <<>>]
    ELSE IF \E i \in 1..Len(batch) : batch[i].jt # "object"
    THEN [raised |-> AttributeError, ret |-> FALSE, sent |-> <<>>]
    ELSE LET values == [i \in 1..Len(batch) |->
                           <<TsNs(batch[i]), json_dumps(batch[i])>>]
             payload == [streams |-> << [stream |-> stream_labels,
                                         values |-> values] >>]
         IN  IF PostOutcome(ans) = None
             THEN [raised |-> None, ret |-> TRUE, sent |-> <<payload>>]
             ELSE [raised |-> None, ret |-> FALSE, sent |-> <<payload, payload>>]

\* push_to_loki(logs, labels) when the backend answers ans to a POST:
\* raised is an exception that leaves the function, ret its return value,
\* sent the payloads handed to requests.post
push_to_loki(batch, stream_labels, ans) ==
    IF batch = <<>>
    THEN [raised |-> None, ret |-> TRUE, sent |-> <<>>]
    ELSE IF \E i \in 1..Len(batch) : batch[i].jt # "object"
    THEN [raised |-> AttributeError, ret |-> FALSE, sent |-> <<>>]
    ELSE LET values == [i \in 1..Len(batch) |->
                           <<TsNs(batch[i]), json_dumps(batch[i])>>]
             payload == [streams |-> << [stream |-> stream_labels,
                                         values |-> values] >>]
             e == PostOutcome(ans)
         IN  IF e = None
             THEN [raised |-> None, ret |-> TRUE, sent |-> <<payload>>]
             ELSE IF e.type \in RequestException
             THEN [raised |-> None, ret |-> FALSE, sent |-> <<payload>>]
             ELSE [raised |-> e, ret |-> FALSE, sent |-> <<payload>>]

(***************************************************************************)
(* Responses: jsonify(body), status.                                       *)
(***************************************************************************)
Response(status, body) == [status |-> status, body |-> body]
NoResponse == Response(0, [none |-> TRUE])

HealthyResponse == Response(200, [status |-> "healthy"])
ReadyResponse ==
    Response(200, [status |-> "ok", message |-> "Cloudflare Logpush receiver ready"])
UnauthorizedResponse == Response(401, [error |-> "Unauthorized"])
NoDataResponse == Response(400, [error |-> "No data received"])
ProbeResponse == Response(200, [text |-> "Success", code |-> 0])
ProcessedResponse(n) == Response(200, [status |-> "ok", processed |-> n])
PushFailedResponse == Response(500, [error |-> "Failed to push to Loki"])
TestOkResponse ==
    Response(200, [status |-> "ok", message |-> "Test log pushed to Loki"])
TestFailedResponse == Response(500, [error |-> "Failed to push test log"])

\* mutant: the exception's message replaced by a fixed text
ExceptResponse_generic(e) == Response(500, [error |-> "Internal Server Error"])

\* except Exception as e: return jsonify({"error": str(e)}), 500
ExceptResponse(e) == Response(500, [error |-> e.msg])

(***************************************************************************)
(* Requests.  lines is what the sender put into the body, one entry per    *)
(* line; it is not read by the receiver.                                   *)
(***************************************************************************)
IngestRoutes == {"/", "/logs", "/api/logs"}

Request(method, route, auth_header, token_arg, body, lines) ==
    [method |-> method, route |-> route, auth_header |-> auth_header,
     token_arg |-> token_arg, body |-> body, lines |-> lines]

NoRequest == Request("", "", <<>>, <<>>, <<>>, <<>>)

\* "\n".join(lines)
RECURSIVE Join(_)
Join(lines) ==
    IF lines = <<>> THEN <<>>
    ELSE IF Len(lines) = 1 THEN lines[1]
    ELSE lines[1] \o <<"NL">> \o Join(Tail(lines))

LineAlphabet ==
    { <<>>, <<"WS">>, <<"A">>, <<"B">>, <<"WS", "B", "WS">>, <<"N">>, <<"BAD">>,
      <<"A", "WS", "B">>, <<"NUM">>, <<"STR">>, <<"NULL">>, <<"PROBE">>, <<"NESTED">> }

ConcAlphabet == { <<"A">>, <<"B">>, <<"NUM">> }

\* a batch sent with valid credentials, plain or gzip-compressed
Batch(lines, gz) ==
    Request("POST", "/logs", Bearer(Secret), <<>>,
            IF gz THEN Gzip(Join(lines)) ELSE Join(lines), lines)

\* bodies that are neither gzip of UTF-8 text nor UTF-8 text
DamagedBodies ==
    { <<"XX">>, <<"A", "XX">>, <<"GZH", "A">>, <<"GZH", "XX", "GZT">>, <<"GZH">> }

AuthHeaders ==
    { <<>>, Bearer(Secret), Bearer(<<"s">>), Bearer(Secret \o <<"x">>), Bearer(<<>>) }

TokenArgs == { <<>>, Secret, <<"x">> \o Secret \o <<"x">>, <<"s">>, <<"k", "s">> }

\* the readiness check, the health check and the smoke test
OtherRequests ==
    { Request("GET", r, <<>>, <<>>, <<>>, <<>>) : r \in IngestRoutes }
    \cup { Request("GET", "/health", <<>>, <<>>, <<>>, <<>>),
           Request("POST", "/test", <<>>, <<>>, <<>>, <<>>) }

\* requests that vary the credentials, the route, the method and the damage
SmallRequests ==
    { Request("POST", "/logs", Bearer(Secret), <<>>, b, <<>>) : b \in DamagedBodies }
    \cup { Request("POST", r, h, a, Join(ls), ls) :
             r \in IngestRoutes, h \in AuthHeaders, a \in TokenArgs,
             ls \in { << <<"A">>, <<"NULL">> >>, << <<"PROBE">> >> } }
    \cup { Request("POST", "/", <<>>, <<>>, Gzip(<<"PROBE">>), << <<"PROBE">> >>) }
    \cup OtherRequests

ConcRequests ==
    { Batch(<< <<"PROBE">> >>, TRUE), Batch(<< <<"BAD">>, <<>> >>, TRUE),
      Batch(<< <<>> >>, FALSE),
      Request("POST", "/logs", Bearer(Secret), <<>>, <<"XX">>, <<>>),
      Request("POST", "/api/logs", <<>>, <<"s">>, <<"B">>, << <<"B">> >>) }
    \cup OtherRequests

(***************************************************************************)
(* The workers.  The names a call of receive_logs binds (logs, labels) are *)
(* local to that call: worker w has them in slot w.                        *)
(***************************************************************************)
\* mutant: logs and labels kept in one module-level place
Slot_shared(w) == 1

Slot(w) == w

TestLog ==
    [jt |-> "object",
     val |-> [ClientIP |-> "1.2.3.4", ClientRequestHost |-> "test.example.com",
              ClientRequestMethod |-> "GET", ClientRequestURI |-> "/test",
              EdgeResponseStatus |-> "200",
              EdgeStartTimestamp |-> "2024-01-01T00:00:00Z", RayID |-> "test-ray-id"]]

TestLabels == [job |-> "cloudflare", source |-> "test"]

Init ==
    /\ AUTH_TOKEN \in {Changeme, Secret, <<>>}
    /\ pc = [w \in Workers |-> "idle"]
    /\ req = [w \in Workers |-> NoRequest]
    /\ content = [w \in Workers |-> <<>>]
    /\ logs = [w \in Workers |-> <<>>]
    /\ labels = [w \in Workers |-> BaseLabels]
    /\ answer = [w \in Workers |-> NoAnswer]
    /\ posts = [w \in Workers |-> <<>>]
    /\ resp = [w \in Workers |-> NoResponse]
    /\ exc = [w \in Workers |-> None]
    /\ steps = [w \in Workers |-> {}]

\* return response / the except clause of receive_logs
Return(w, r) ==
    /\ resp' = [resp EXCEPT ![w] = r]
    /\ pc' = [pc EXCEPT ![w] = "Respond"]

Raise(w, e) ==
    /\ exc' = [exc EXCEPT ![w] = e]
    /\ Return(w, ExceptResponse(e))

Enter(w, stage) == steps' = [steps EXCEPT ![w] = @ \cup {stage}]

\* Flask hands a request to the view function its route names
Receive(w, r) ==
    /\ pc[w] = "idle"
    /\ req' = [req EXCEPT ![w] = r]
    /\ pc' = [pc EXCEPT ![w] =
                IF r.route = "/health" THEN "health"
                ELSE IF r.route = "/test" THEN "test_endpoint"
                ELSE "ReceiveRequest"]
    /\ UNCHANGED <<AUTH_TOKEN, content, logs, labels, answer, posts, resp, exc, steps>>

health(w) ==
    /\ pc[w] = "health"
    /\ Return(w, HealthyResponse)
    /\ UNCHANGED <<AUTH_TOKEN, req, content, logs, labels, answer, posts, exc, steps>>

test_endpoint(w) ==
    /\ pc[w] = "test_endpoint"
    /\ \E ans \in BackendAnswers :
         LET r == push_to_loki(<<TestLog>>, TestLabels, ans)
         IN  /\ answer' = [answer EXCEPT ![w] = ans]
             /\ posts' = [posts EXCEPT ![w] = @ \o r.sent]
             /\ Return(w, IF r.ret THEN TestOkResponse ELSE TestFailedResponse)
    /\ UNCHANGED <<AUTH_TOKEN, req, content, logs, labels, exc, steps>>

\* if request.method == 'GET'
ReceiveRequest(w) ==
    /\ pc[w] = "ReceiveRequest"
    /\ IF req[w].method = "GET"
       THEN Return(w, ReadyResponse)
       ELSE /\ pc' = [pc EXCEPT ![w] = "AuthCheck"]
            /\ UNCHANGED resp
    /\ UNCHANGED <<AUTH_TOKEN, req, content, logs, labels, answer, posts, exc, steps>>

AuthCheck(w) ==
    /\ pc[w] = "AuthCheck"
    /\ Enter(w, "AuthCheck")
    /\ IF Unauthorized(AUTH_TOKEN, req[w].auth_header, req[w].token_arg)
       THEN Return(w, UnauthorizedResponse)
       ELSE /\ pc' = [pc EXCEPT ![w] = "Decode"]
            /\ UNCHANGED resp
    /\ UNCHANGED <<AUTH_TOKEN, req, content, logs, labels, answer, posts, exc>>

\* data = request.get_data() up to content
Decode(w) ==
    /\ pc[w] = "Decode"
    /\ Enter(w, "Decode")
    /\ LET data == req[w].body
           d == DecodeBody(data)
       IN  IF data = <<>>
           THEN Return(w, NoDataResponse) /\ UNCHANGED <<content, exc>>
           ELSE IF d.raised # None
           THEN Raise(w, d.raised) /\ UNCHANGED content
           ELSE /\ content' = [content EXCEPT ![w] = d.out]
                /\ pc' = [pc EXCEPT ![w] = "ProbeCheck"]
                /\ UNCHANGED <<resp, exc>>
    /\ UNCHANGED <<AUTH_TOKEN, req, logs, labels, answer, posts>>

ProbeCheck(w) ==
    /\ pc[w] = "ProbeCheck"
    /\ Enter(w, "ProbeCheck")
    /\ IF is_probe(content[w])
       THEN Return(w, ProbeResponse)
       ELSE /\ pc' = [pc EXCEPT ![w] = "Parse"]
            /\ UNCHANGED resp
    /\ UNCHANGED <<AUTH_TOKEN, req, content, logs, labels, answer, posts, exc>>

\* logs = [] ... if not logs
Parse(w) ==
    /\ pc[w] = "Parse"
    /\ Enter(w, "Parse")
    /\ LET parsed == ParseNdjson(content[w])
       IN  /\ logs' = [logs EXCEPT ![Slot(w)] = parsed]
           /\ IF parsed = <<>>
              THEN Return(w, ProcessedResponse(0))
              ELSE /\ pc' = [pc EXCEPT ![w] = "DeriveLabels"]
                   /\ UNCHANGED resp
    /\ UNCHANGED <<AUTH_TOKEN, req, content, labels, answer, posts, exc>>

DeriveLabels(w) ==
    /\ pc[w] = "DeriveLabels"
    /\ Enter(w, "DeriveLabels")
    /\ LET d == DeriveLabelsOf(logs[Slot(w)])
       IN  IF d.raised # None
           THEN Raise(w, d.raised) /\ UNCHANGED labels
           ELSE /\ labels' = [labels EXCEPT ![Slot(w)] = d.labels]
                /\ pc' = [pc EXCEPT ![w] = "Forward"]
                /\ UNCHANGED <<resp, exc>>
    /\ UNCHANGED <<AUTH_TOKEN, req, content, logs, answer, posts>>

\* success = push_to_loki(logs, labels) and the response it decides
Forward(w) ==
    /\ pc[w] = "Forward"
    /\ Enter(w, "Forward")
    /\ \E ans \in BackendAnswers :
         LET r == push_to_loki(logs[Slot(w)], labels[Slot(w)], ans)
         IN  /\ posts' = [posts EXCEPT ![w] = @ \o r.sent]
             /\ answer' = [answer EXCEPT ![w] = IF r.sent = <<>> THEN NoAnswer ELSE ans]
             /\ IF r.raised # None
                THEN Raise(w, r.raised)
                ELSE /\ UNCHANGED exc
                     /\ Return(w, IF r.ret
                                  THEN ProcessedResponse(Len(logs[Slot(w)]))
                                  ELSE PushFailedResponse)
    /\ UNCHANGED <<AUTH_TOKEN, req, content, logs, labels>>

\* the response goes out and the call's names are gone
Respond(w) ==
    /\ pc[w] = "Respond"
    /\ pc' = [pc EXCEPT ![w] = "idle"]
    /\ req' = [req EXCEPT ![w] = NoRequest]
    /\ content' = [content EXCEPT ![w] = <<>>]
    /\ logs' = [logs EXCEPT ![Slot(w)] = <<>>]
    /\ labels' = [labels EXCEPT ![Slot(w)] = BaseLabels]
    /\ answer' = [answer EXCEPT ![w] = NoAnswer]
    /\ posts' = [posts EXCEPT ![w] = <<>>]
    /\ resp' = [resp EXCEPT ![w] = NoResponse]
    /\ exc' = [exc EXCEPT ![w] = None]
    /\ steps' = [steps EXCEPT ![w] = {}]
    /\ UNCHANGED AUTH_TOKEN

Handle(w) ==
    \/ health(w)
    \/ test_endpoint(w)
    \/ ReceiveRequest(w)
    \/ AuthCheck(w)
    \/ Decode(w)
    \/ ProbeCheck(w)
    \/ Parse(w)
    \/ DeriveLabels(w)
    \/ Forward(w)
    \/ Respond(w)

\* one worker, batches of up to MaxLines lines
Next ==
    \/ /\ pc[1] = "idle"
       /\ \E k \in 1..MaxLines : \E ls \in [1..k -> LineAlphabet], gz \in BOOLEAN :
             Receive(1, Batch(ls, gz))
    \/ /\ pc[1] = "idle"
       /\ \E r \in SmallRequests : Receive(1, r)
    \/ Handle(1)

Spec == Init /\ [][Next]_vars

\* all workers, batches of up to ConcMaxLines lines
InitConc == Init /\ AUTH_TOKEN = Secret

NextConc ==
    \E w \in Workers :
        \/ /\ pc[w] = "idle"
           /\ \E k \in 1..ConcMaxLines : \E ls \in [1..k -> ConcAlphabet] :
                 Receive(w, Batch(ls, FALSE))
        \/ /\ pc[w] = "idle"
           /\ \E r \in ConcRequests : Receive(w, r)
        \/ Handle(w)

SpecConc == InitConc /\ [][NextConc]_vars

\* one worker, batches of up to ConcMaxLines lines; a worker that has a
\* request keeps running until it has answered (the only call that waits,
\* requests.post, has timeout=30)
NextOne ==
    \/ /\ pc[1] = "idle"
       /\ \E k \in 1..ConcMaxLines : \E ls \in [1..k -> LineAlphabet], gz \in BOOLEAN :
             Receive(1, Batch(ls, gz))
    \/ /\ pc[1] = "idle"
       /\ \E r \in SmallRequests : Receive(1, r)
    \/ Handle(1)

FairSpec == Init /\ [][NextOne]_vars /\ WF_vars(Handle(1))

(***************************************************************************)
(* What the claims speak of, stated on the request as it was sent.         *)
(***************************************************************************)
Done(w) == pc[w] = "Respond"

IsIngestPost(w) == req[w].method = "POST" /\ req[w].route \in IngestRoutes

\* a line that holds one JSON value, blanks around it allowed
IsJsonLine(l) ==
    \E t \in JsonTokens : l \in { <<t>>, <<"WS", t>>, <<t, "WS">>, <<"WS", t, "WS">> }

IsBlankLine(l) == \A i \in 1..Len(l) : l[i] = "WS"

\* the JSON value a JSON line holds
ValueOfLine(l) == JsonValue(CHOOSE t \in JsonTokens : \E i \in 1..Len(l) : l[i] = t)

\* the lines of a body that are JSON, in the order sent
GoodLines(lines) == SelectSeq(lines, IsJsonLine)

HasProbeText(lines) ==
    \E i \in 1..Len(lines) : \E j \in 1..Len(lines[i]) : lines[i][j] \in ProbeTokens

\* the bytes are gzip of UTF-8 text or UTF-8 text
IsText(bytes) == \A i \in 1..Len(bytes) : bytes[i] \notin NonTextBytes

Decodable(bytes) ==
    \/ IsText(bytes)
    \/ /\ Len(bytes) >= 2
       /\ bytes[1] = "GZH"
       /\ bytes[Len(bytes)] = "GZT"
       /\ IsText(SubSeq(bytes, 2, Len(bytes) - 1))

Is2xx(ans) == ans.kind = "http" /\ ans.code >= 200 /\ ans.code < 300

HasErrorBody(r) == DOMAIN r.body = {"error"}

PipelineStages == {"Decode", "ProbeCheck", "Parse", "DeriveLabels", "Forward"}

\* the labels of a batch whose first JSON line is l
LabelsOfLine(l) ==
    IF ValueOfLine(l).jt = "object" /\ "ClientRequestHost" \in DOMAIN ValueOfLine(l).val
    THEN [job |-> "cloudflare", source |-> "logpush",
          host |-> ValueOfLine(l).val.ClientRequestHost]
    ELSE [job |-> "cloudflare", source |-> "logpush"]

(***************************************************************************)
(* C1.                                                                     *)
(***************************************************************************)
\* C1: a POST to an ingestion route is never answered 401 under the default
\* token; under any other token it is answered 401 exactly when the
\* Authorization header is not "Bearer <token>" and the token query parameter
\* does not contain the token; a request answered 401 ran no pipeline stage
\* and made no backend call.
C1_AuthDecides ==
    \A w \in Workers :
        Done(w) /\ IsIngestPost(w) =>
            /\ AUTH_TOKEN = Changeme => resp[w].status # 401
            /\ AUTH_TOKEN # Changeme =>
                 (resp[w].status = 401 <=>
                     /\ req[w].auth_header # Bearer(AUTH_TOKEN)
                     /\ ~IsSubstring(AUTH_TOKEN, req[w].token_arg))
            /\ resp[w].status = 401 =>
                 /\ steps[w] \cap PipelineStages = {}
                 /\ posts[w] = <<>>
                 /\ answer[w] = NoAnswer

C1_Witness ==
    \E w \in Workers :
        /\ Done(w) /\ IsIngestPost(w)
        /\ AUTH_TOKEN = Secret
        /\ req[w].auth_header = Bearer(<<"s">>)
        /\ req[w].token_arg = <<"k", "s">>
        /\ resp[w] = UnauthorizedResponse

(***************************************************************************)
(* C2.                                                                     *)
(***************************************************************************)
\* C2: a POST that reached Parse with N JSON lines is answered 200 processed 0
\* when N = 0, 200 processed N when N > 0 and the backend answered 2xx, 500
\* with an error body when N > 0 and the backend answered otherwise or not at
\* all; nothing else.
C2_ParseOutcomes ==
    \A w \in Workers :
        Done(w) /\ IsIngestPost(w) /\ "Parse" \in steps[w] =>
            LET n == Len(GoodLines(req[w].lines))
            IN  /\ n = 0 => resp[w] = ProcessedResponse(0)
                /\ n > 0 =>
                     /\ answer[w] # NoAnswer
                     /\ Is2xx(answer[w]) => resp[w] = ProcessedResponse(n)
                     /\ ~Is2xx(answer[w]) =>
                          resp[w].status = 500 /\ HasErrorBody(resp[w])

(***************************************************************************)
(* C3.                                                                     *)
(***************************************************************************)
\* C3: one request makes at most one POST to the backend; none when it is a
\* GET or ends in 401, 400, the probe acknowledgment or processed 0; exactly
\* one before a 200 with processed > 0 and before a forward-failure 500.
C3_AtMostOnePost ==
    \A w \in Workers :
        /\ Len(posts[w]) <= 1
        /\ Done(w) =>
             /\ ( \/ req[w].method = "GET"
                  \/ resp[w].status \in {400, 401}
                  \/ resp[w] = ProbeResponse
                  \/ resp[w] = ProcessedResponse(0) ) => posts[w] = <<>>
             /\ ( \/ /\ resp[w].status = 200
                     /\ "processed" \in DOMAIN resp[w].body
                     /\ resp[w].body.processed > 0
                  \/ resp[w] = PushFailedResponse ) => Len(posts[w]) = 1

C3_Witness ==
    \E w \in Workers :
        /\ Done(w) /\ IsIngestPost(w)
        /\ resp[w] = PushFailedResponse
        /\ answer[w] = HttpAnswer(503)
        /\ Len(posts[w]) = 1

(***************************************************************************)
(* C4.                                                                     *)
(***************************************************************************)
\* C4: a POST that passed AuthCheck whose body is empty or is neither gzip of
\* UTF-8 text nor UTF-8 text is answered 400 with an error body, with nothing
\* parsed and no backend call.
C4_DecodeFailureIs400 ==
    \A w \in Workers :
        /\ Done(w) /\ IsIngestPost(w) /\ resp[w].status # 401
        /\ (req[w].body = <<>> \/ ~Decodable(req[w].body))
        => /\ resp[w].status = 400
           /\ HasErrorBody(resp[w])
           /\ "Parse" \notin steps[w]
           /\ posts[w] = <<>>

(***************************************************************************)
(* C5.                                                                     *)
(***************************************************************************)
\* C5 as stated: a POST to an ingestion route whose body is the probe payload,
\* plain or gzip-compressed, is answered 200 with text Success and code 0,
\* before Parse, DeriveLabels and Forward.
C5_ProbeAlwaysAcknowledged ==
    \A w \in Workers :
        /\ Done(w) /\ IsIngestPost(w)
        /\ req[w].body \in { <<"PROBE">>, Gzip(<<"PROBE">>) }
        => /\ resp[w] = ProbeResponse
           /\ steps[w] \cap {"Parse", "DeriveLabels", "Forward"} = {}
           /\ posts[w] = <<>>

\* C5 amended: a POST to an ingestion route that passes AuthCheck and whose
\* body is the probe payload, plain or gzip-compressed, is answered 200 with
\* text Success and code 0, before Parse, DeriveLabels and Forward, with no
\* backend call.
C5_AuthorizedProbeAcknowledged ==
    \A w \in Workers :
        /\ Done(w) /\ IsIngestPost(w)
        /\ ~( /\ AUTH_TOKEN # Changeme
              /\ req[w].auth_header # Bearer(AUTH_TOKEN)
              /\ ~IsSubstring(AUTH_TOKEN, req[w].token_arg) )
        /\ req[w].body \in { <<"PROBE">>, Gzip(<<"PROBE">>) }
        => /\ resp[w] = ProbeResponse
           /\ steps[w] \cap {"Parse", "DeriveLabels", "Forward"} = {}
           /\ posts[w] = <<>>
           /\ answer[w] = NoAnswer

C5_Witness ==
    \E w \in Workers :
        /\ Done(w) /\ IsIngestPost(w)
        /\ AUTH_TOKEN = Secret
        /\ req[w].body = Gzip(<<"PROBE">>)
        /\ resp[w] = ProbeResponse

WellFormedBody(body) ==
    DOMAIN body \in { {"error"}, {"text", "code"}, {"status", "processed"},
                      {"status", "message"} }

C7_OneResponse ==
    \A w \in Workers :
        /\ ~Done(w) => resp[w] = NoResponse
        /\ Done(w) /\ IsIngestPost(w) =>
             /\ resp[w].status \in {200, 400, 401, 500}
             /\ WellFormedBody(resp[w].body)
             /\ (exc[w] # None => resp[w] = Response(500, [error |-> exc[w].msg]))

\* C7: every POST to an ingestion route is eventually answered, with exactly
\* one well-formed JSON response of status 200, 400, 401 or 500; an exception
\* raised in the pipeline is answered 500 with the exception's message.
C7_AlwaysAnswered ==
    /\ []C7_OneResponse
    /\ \A w \in Workers : (pc[w] = "AuthCheck") ~> Done(w)

C7_Witness ==
    \E w \in Workers :
        /\ Done(w) /\ IsIngestPost(w)
        /\ exc[w] = UnicodeDecodeError
        /\ resp[w].status = 500

(***************************************************************************)
(* C8.                                                                     *)
(***************************************************************************)
\* the answer to an ingestion POST r under token tok when the backend, if
\* asked, answers ans
AnswerTo(tok, r, ans) ==
    LET good == GoodLines(r.lines)
    IN  IF /\ tok # Changeme
           /\ r.auth_header # Bearer(tok)
           /\ ~IsSubstring(tok, r.token_arg)
        THEN UnauthorizedResponse
        ELSE IF r.body = <<>> THEN NoDataResponse
        ELSE IF ~Decodable(r.body) THEN Response(500, [error |-> UnicodeDecodeError.msg])
        ELSE IF HasProbeText(r.lines) THEN ProbeResponse
        ELSE IF good = <<>> THEN ProcessedResponse(0)
        ELSE IF ValueOfLine(good[1]).jt \in {"number", "null"}
             THEN Response(500, [error |-> TypeError.msg])
        ELSE IF \E i \in 1..Len(good) : ValueOfLine(good[i]).jt # "object"
             THEN Response(500, [error |-> AttributeError.msg])
        ELSE IF ans.kind = "http" /\ ~(ans.code >= 400 /\ ans.code < 600)
             THEN ProcessedResponse(Len(good))
        ELSE PushFailedResponse

C8_OwnRequestOnly ==
    \A w \in Workers :
        /\ Done(w) /\ IsIngestPost(w) => resp[w] = AnswerTo(AUTH_TOKEN, req[w], answer[w])
        /\ IsIngestPost(w) /\ posts[w] # <<>> =>
             /\ posts[w][1].streams[1].stream = LabelsOfLine(GoodLines(req[w].lines)[1])
             /\ posts[w][1].streams[1].values =
                  [i \in 1..Len(GoodLines(req[w].lines)) |->
                      <<TsNs(ValueOfLine(GoodLines(req[w].lines)[i])),
                        json_dumps(ValueOfLine(GoodLines(req[w].lines)[i]))>>]

\* a step of one worker leaves what the other workers hold as it was
C8_NoSharedWrites ==
    \A w \in Workers :
        pc'[w] = pc[w] =>
            /\ req'[w] = req[w] /\ content'[w] = content[w]
            /\ logs'[w] = logs[w] /\ labels'[w] = labels[w]
            /\ answer'[w] = answer[w] /\ posts'[w] = posts[w]
            /\ resp'[w] = resp[w] /\ exc'[w] = exc[w] /\ steps'[w] = steps[w]

\* C8: with requests handled concurrently, each request's payload and answer
\* depend only on its own body, headers and query and on the outcome of its
\* own backend call; no step of one request writes what another reads.
C8_Isolation == []C8_OwnRequestOnly /\ [][C8_NoSharedWrites]_vars

C8_Witness ==
    /\ posts[1] # <<>> /\ posts[2] # <<>>
    /\ posts[1][1].streams[1].stream = LabelsOfLine(<<"A">>)
    /\ posts[2][1].streams[1].stream = LabelsOfLine(<<"B">>)
    /\ Len(posts[1][1].streams[1].values) = 1
    /\ Len(posts[2][1].streams[1].values) = 2
    /\ Done(1) /\ Done(2)
    /\ resp[1].status = 500 /\ resp[2].status = 200

(***************************************************************************)
(* C9.                                                                     *)
(***************************************************************************)
\* C9: a POST that reached Parse and whose non-blank lines are all JSON values
\* of any type passes DeriveLabels and Forward, sends one values entry per
\* line and, when the backend answers 2xx, is answered 200 with processed
\* equal to the number of those lines.
C9_AnyJsonValuePassesThrough ==
    \A w \in Workers :
        /\ Done(w) /\ IsIngestPost(w) /\ "Parse" \in steps[w]
        /\ \A i \in 1..Len(req[w].lines) :
             IsBlankLine(req[w].lines[i]) \/ IsJsonLine(req[w].lines[i])
        /\ GoodLines(req[w].lines) # <<>>
        => /\ exc[w] = None
           /\ {"DeriveLabels", "Forward"} \subseteq steps[w]
           /\ Len(posts[w]) = 1
           /\ Len(posts[w][1].streams[1].values) = Len(GoodLines(req[w].lines))
           /\ Is2xx(answer[w]) => resp[w] = ProcessedResponse(Len(GoodLines(req[w].lines)))

(***************************************************************************)
(* C10.                                                                    *)
(***************************************************************************)
\* C10: a POST that passed AuthCheck and whose decoded body contains the probe
\* text anywhere, also inside one line of a batch of ordinary records, is
\* answered with the probe acknowledgment, and none of its records is parsed
\* or pushed.
C10_ProbeTextAnywhere ==
    \A w \in Workers :
        /\ Done(w) /\ IsIngestPost(w) /\ resp[w].status # 401
        /\ Decodable(req[w].body) /\ HasProbeText(req[w].lines)
        => /\ resp[w] = ProbeResponse
           /\ steps[w] \cap {"Parse", "DeriveLabels", "Forward"} = {}
           /\ logs[w] = <<>>
           /\ posts[w] = <<>>

C10_Witness ==
    \E w \in Workers :
        /\ Done(w) /\ IsIngestPost(w)
        /\ req[w].lines = << <<"A">>, <<"NESTED">>, <<"B">> >>
        /\ resp[w] = ProbeResponse
        /\ posts[w] = <<>>

====
